---- MODULE Spec2Model ----
(***************************************************************************)
(* Model of the upgrade coordinators of satellite6-upgrade:                *)
(*   upgrade/satellite.py : satellite_setup, satellite_upgrade             *)
(*   upgrade/capsule.py   : satellite_capsule_setup,                       *)
(*                          satellite_capsule_upgrade,                     *)
(*                          satellite_capsule_zstream_upgrade              *)
(* One behaviour is one run of one coordinator.  trace records, in order,  *)
(* every call the coordinator makes to a helper that acts on a host.       *)
(***************************************************************************)
EXTENDS Integers, Sequences, FiniteSets, TLC

(* ---------------- bounds ---------------- *)
\* largest number of capsule hosts handed to satellite_capsule_setup
MaxHosts == 2
\* number of entries of the static CUSTOM_SAT_REPO table
NumCustomRepos == 2
\* number of repository action plans applied in a row to one host
MaxApplications == 2

(* ---------------- hosts ---------------- *)
\* the Satellite host; capsule hosts are 1..MaxHosts
SatHost == 0
CapHosts == 1..MaxHosts

(* ---------------- value spaces of the settings ---------------- *)
Versions == {"6.9", "6.10"}
OsNames == {"rhel6", "rhel7", "rhel8"}
Distributions == {"cdn", "custom"}
AnsibleVersions == {"2.9"}
\* outcome of a helper that ends the process itself when its check fails
GateOutcomes == {"ok", "fatal"}

(* ---------------- repository names ---------------- *)
\* a repository name: the template it is built from and the values filled in
Repo(tmpl, major, ver) == [tmpl |-> tmpl, major |-> major, ver |-> ver]

\* settings.upgrade.os[-1]
major_ver(os) ==
    CASE os = "rhel6" -> "6"
      [] os = "rhel7" -> "7"
      [] os = "rhel8" -> "8"

Wildcard == Repo("*", "", "")

\* RHEL_CONTENTS[key]["label"]
RHEL_CONTENTS(key) == Repo(key, "", "")

\* [RHEL_CONTENTS["rhscl"]["label"], RHEL_CONTENTS["server"]["label"]]
common_sat_cap_repos == << RHEL_CONTENTS("rhscl"), RHEL_CONTENTS("server") >>

\* 'rhel-7-server-satellite-maintenance-6-rpms'
SatMaintenanceRepo(os) == Repo("rhel-{}-server-satellite-maintenance-6-rpms", "7", "")

\* f'rhel-{major_ver}-server-satellite-{settings.upgrade.to_version}-rpms'
SatelliteRepo(os, to_version) ==
    Repo("rhel-{}-server-satellite-{}-rpms", major_ver(os), to_version)

\* f"rhel-{major_ver}-server-ansible-{settings.upgrade.ansible_repo_version}-rpms"
AnsibleRepo(os, ansible_repo_version) ==
    Repo("rhel-{}-server-ansible-{}-rpms", major_ver(os), ansible_repo_version)

\* the keys of the static custom repository table
CUSTOM_SAT_REPO == 1..NumCustomRepos

(* ---------------- events of the trace ---------------- *)
Ev(op, host, enable, disable, arg, entry, hosts) ==
    [op |-> op, host |-> host, enable |-> enable, disable |-> disable,
     arg |-> arg, entry |-> entry, hosts |-> hosts]

\* a helper call without repository arguments
Call(op, host) == Ev(op, host, <<>>, <<>>, "", 0, <<>>)
\* a helper call with one keyword argument
CallArg(op, host, arg) == Ev(op, host, <<>>, <<>>, arg, 0, <<>>)
\* a helper call that takes the list of capsule hosts
CallHosts(op, host, hosts) == Ev(op, host, <<>>, <<>>, "", 0, hosts)
\* enable_disable_repo(enable_repos_name=..., disable_repos_name=...)
enable_disable_repo(host, enable, disable) ==
    Ev("enable_disable_repo", host, enable, disable, "", 0, <<>>)
\* repository_setup(CUSTOM_SAT_REPO[repo][...]...)
repository_setup(host, entry) ==
    Ev("repository_setup", host, <<>>, <<>>, "", entry, <<>>)

(* ---------------- state ---------------- *)
VARIABLES
    coord,                  \* the coordinator this run executes
    settings,               \* the global settings object
    args,                   \* the arguments the coordinator was called with
    pc,                     \* position of the run in the coordinator
    trace,                  \* helper calls issued so far, in order
    non_responsive_host,    \* satellite_capsule_setup: hosts that failed the ping
    idx,                    \* index of the host / table entry a loop is at
    pulp_migration_status,  \* satellite_upgrade: result of pulp2_pulp3_migration
    host_repos              \* repositories enabled on the host being upgraded

vars == << coord, settings, args, pc, trace, non_responsive_host, idx,
           pulp_migration_status, host_repos >>

Coordinators == {"satellite_setup", "satellite_upgrade", "satellite_capsule_setup",
                 "satellite_capsule_upgrade", "satellite_capsule_zstream_upgrade"}

\* elements of a sequence
Range(s) == { s[i] : i \in DOMAIN s }

\* sequences without repetition over S, of length 0..n
RECURSIVE DistinctSeqs(_, _)
DistinctSeqs(S, n) ==
    IF n = 0 THEN { <<>> }
    ELSE LET shorter == DistinctSeqs(S, n - 1)
         IN  shorter \cup
             UNION { { Append(s, h) : h \in S \ Range(s) } : s \in shorter }

\* the elements of a finite set as a sequence, in some fixed order
RECURSIVE SetToSeq(_)
SetToSeq(S) ==
    IF S = {} THEN <<>>
    ELSE LET x == CHOOSE y \in S : TRUE
         IN  << x >> \o SetToSeq(S \ {x})

(* ---------------- repository state of a host ---------------- *)
\* the repositories a host knows about
KnownRepos ==
    { RHEL_CONTENTS(k) : k \in {"rhscl", "server", "tools", "capsule", "maintenance"} }
    \cup { SatMaintenanceRepo(os) : os \in OsNames }
    \cup { SatelliteRepo(os, v) : os \in OsNames, v \in Versions }
    \cup { AnsibleRepo(os, a) : os \in OsNames, a \in AnsibleVersions }

\* the repositories a list of names stands for: "*" stands for all of them
Named(names) ==
    IF Wildcard \in Range(names) THEN KnownRepos ELSE Range(names) \cap KnownRepos

\* variant: an enable flips the state of a repository
ApplyPlan_Toggle(enabled, enable, disable) ==
    LET kept == enabled \ Named(disable)
    IN  (kept \ Named(enable)) \cup (Named(enable) \ kept)

\* enable_disable_repo on a host with the given enabled repositories: the
\* repositories to disable are disabled, those to enable are enabled
ApplyPlan(enabled, enable, disable) ==
    (enabled \ Named(disable)) \cup Named(enable)

\* the enabled repositories after a sequence of helper calls
RECURSIVE ApplyEvents(_, _)
ApplyEvents(enabled, events) ==
    IF events = <<>> THEN enabled
    ELSE ApplyEvents(
            IF Head(events).op = "enable_disable_repo"
            THEN ApplyPlan(enabled, Head(events).enable, Head(events).disable)
            ELSE enabled,
            Tail(events))

\* what is enabled on a host when a coordinator starts
InitialHostRepos ==
    { {}, { RHEL_CONTENTS("rhscl"), RHEL_CONTENTS("server") } }

SettingsSpace ==
    [ from_version : Versions,
      to_version : Versions,
      os : OsNames,
      distribution : Distributions,
      foreman_maintain_satellite_upgrade : BOOLEAN,
      foreman_maintain_capsule_upgrade : BOOLEAN,
      satellite_capsule_setup_reboot : BOOLEAN,
      downstream_fm_upgrade : BOOLEAN,
      upgrade_with_http_proxy : BOOLEAN,
      ansible_repo_version : AnsibleVersions,
      whitelist_param : {""},
      satellite_hostname : {-1},
      capsule_hostname : {-1},
      repos_cleared : {FALSE} ]

\* settings fields a coordinator does not read keep one fixed value
DefaultSettings ==
    [ from_version |-> "6.9", to_version |-> "6.10", os |-> "rhel7",
      distribution |-> "cdn",
      foreman_maintain_satellite_upgrade |-> TRUE,
      foreman_maintain_capsule_upgrade |-> TRUE,
      satellite_capsule_setup_reboot |-> TRUE,
      downstream_fm_upgrade |-> FALSE,
      upgrade_with_http_proxy |-> FALSE,
      ansible_repo_version |-> "2.9",
      whitelist_param |-> "",
      satellite_hostname |-> -1,
      capsule_hostname |-> -1,
      repos_cleared |-> FALSE ]

DefaultArgs ==
    [ zstream |-> FALSE, satellite_host |-> SatHost, cap_host |-> 1,
      capsule_hosts |-> <<>>, os_version |-> "rhel7", upgradable_capsule |-> TRUE ]

SatelliteUpgradeSettings ==
    { s \in SettingsSpace : s.upgrade_with_http_proxy = FALSE }

CapsuleUpgradeSettings ==
    { s \in SettingsSpace :
        /\ s.downstream_fm_upgrade = FALSE
        /\ s.upgrade_with_http_proxy = FALSE }

CapsuleSetupSettings ==
    { s \in SettingsSpace :
        /\ s.from_version = "6.9" /\ s.to_version = "6.10" /\ s.os = "rhel7"
        /\ s.foreman_maintain_satellite_upgrade = TRUE
        /\ s.foreman_maintain_capsule_upgrade = TRUE
        /\ s.satellite_capsule_setup_reboot = TRUE
        /\ s.downstream_fm_upgrade = FALSE }

Init ==
    /\ pc = "start"
    /\ trace = <<>>
    /\ non_responsive_host = <<>>
    /\ idx = 1
    /\ pulp_migration_status = TRUE
    /\ host_repos \in InitialHostRepos
    /\ \/ /\ coord = "satellite_setup"
          /\ settings = DefaultSettings
          /\ args = DefaultArgs
       \/ /\ coord = "satellite_upgrade"
          /\ settings \in SatelliteUpgradeSettings
          /\ \E z \in BOOLEAN : args = [DefaultArgs EXCEPT !.zstream = z]
       \/ /\ coord = "satellite_capsule_setup"
          /\ settings \in CapsuleSetupSettings
          /\ \E hs \in DistinctSeqs(CapHosts, MaxHosts),
                ov \in {"rhel6", "rhel7", "rhel8"},
                up \in BOOLEAN :
                args = [DefaultArgs EXCEPT !.capsule_hosts = hs,
                                           !.os_version = ov,
                                           !.upgradable_capsule = up]
       \/ /\ coord = "satellite_capsule_upgrade"
          /\ settings \in CapsuleUpgradeSettings
          /\ \E c \in CapHosts : args = [DefaultArgs EXCEPT !.cap_host = c]
       \/ /\ coord = "satellite_capsule_zstream_upgrade"
          /\ settings \in CapsuleUpgradeSettings
          /\ \E c \in CapHosts :
                args = [DefaultArgs EXCEPT !.cap_host = c, !.zstream = TRUE]

\* variant: the failed step is tried again instead of ending the process
Abort_Retries(events) ==
    /\ pc' = pc
    /\ trace' = trace
    /\ host_repos' = host_repos

\* variant: the warning is logged and the function carries on to its return
Abort_Returns(events) ==
    /\ pc' = "Done"
    /\ trace' = trace \o events
    /\ host_repos' = ApplyEvents(host_repos, events)

\* the process ends: sys.exit(1), or a helper that gives up
Abort(events) ==
    /\ pc' = "Aborted"
    /\ trace' = trace \o events
    /\ host_repos' = ApplyEvents(host_repos, events)

\* the run goes on at the next position
Goto(label, events) ==
    /\ pc' = label
    /\ trace' = trace \o events
    /\ host_repos' = ApplyEvents(host_repos, events)


Terminal == pc \in {"Done", "Aborted"}

(***************************************************************************)
(* satellite_upgrade(zstream)                    upgrade/satellite.py      *)
(***************************************************************************)

\* variant: the comparison of the versions without its negation
ZstreamMismatch_NoNegation(zstream, from_version, to_version) ==
    zstream /\ (from_version = to_version)

\* zstream requested and FROM and TO versions are not the same
ZstreamMismatch(zstream, from_version, to_version) ==
    zstream /\ ~(from_version = to_version)

\* lines 88-93: the zStream version check
SatZstreamCheck ==
    /\ coord = "satellite_upgrade" /\ pc = "start"
    /\ IF ZstreamMismatch(args.zstream, settings.from_version, settings.to_version)
       THEN Abort(<<>>)
       ELSE Goto("disable_all", <<>>)
    /\ UNCHANGED << coord, settings, args, non_responsive_host, idx,
                    pulp_migration_status >>

\* variant: the wildcard handed over as enable_repos_name
DisableAllPlan_AsEnable == << enable_disable_repo(SatHost, << Wildcard >>, <<>>) >>

\* line 103: enable_disable_repo(disable_repos_name=["*"])
DisableAllPlan == << enable_disable_repo(SatHost, <<>>, << Wildcard >>) >>

\* lines 94-103: whitelist parameter, then disable all the repos
SatDisableAll ==
    /\ coord = "satellite_upgrade" /\ pc = "disable_all"
    /\ settings' = IF settings.downstream_fm_upgrade
                   THEN [settings EXCEPT !.whitelist_param =
                            ", repositories-validate, repositories-setup"]
                   ELSE settings
    /\ Goto("enable_common", DisableAllPlan)
    /\ UNCHANGED << coord, args, non_responsive_host, idx, pulp_migration_status >>

\* variant: the test of the flag without its negation
CommonReposNeeded_NoNegation(s) == s.foreman_maintain_satellite_upgrade

\* line 107: the common repos are needed when foreman-maintain is not used
CommonReposNeeded(s) == ~s.foreman_maintain_satellite_upgrade

\* lines 105-108: the common repos are enabled for the non-fm upgrade only
SatEnableCommon ==
    /\ coord = "satellite_upgrade" /\ pc = "enable_common"
    /\ IF CommonReposNeeded(settings)
       THEN Goto("repo_config",
                 << enable_disable_repo(SatHost, common_sat_cap_repos, <<>>) >>)
       ELSE Goto("repo_config", <<>>)
    /\ UNCHANGED << coord, settings, args, non_responsive_host, idx,
                    pulp_migration_status >>

\* lines 109-111: cdn enables the maintenance repo, custom enters the table loop
SatRepoConfig ==
    /\ coord = "satellite_upgrade" /\ pc = "repo_config"
    /\ IF settings.distribution = "cdn"
       THEN Goto("migration",
                 << enable_disable_repo(SatHost, << SatMaintenanceRepo(settings.os) >>,
                                        <<>>) >>)
       ELSE Goto("custom_loop", <<>>)
    /\ idx' = 1
    /\ UNCHANGED << coord, settings, args, non_responsive_host,
                    pulp_migration_status >>

\* variant: the loop stops one entry early
CustomLoopDone_OffByOne(i) == i >= NumCustomRepos

\* line 112: the loop over CUSTOM_SAT_REPO has visited every entry
CustomLoopDone(i) == i > NumCustomRepos

\* lines 112-119: one iteration of the loop over CUSTOM_SAT_REPO
SatCustomRepoSetup ==
    /\ coord = "satellite_upgrade" /\ pc = "custom_loop"
    /\ ~CustomLoopDone(idx)
    /\ Goto("custom_loop", << repository_setup(SatHost, idx) >>)
    /\ idx' = idx + 1
    /\ UNCHANGED << coord, settings, args, non_responsive_host,
                    pulp_migration_status >>

\* line 120: after the loop, foreman_maintain_package_update()
SatCustomPackageUpdate ==
    /\ coord = "satellite_upgrade" /\ pc = "custom_loop"
    /\ CustomLoopDone(idx)
    /\ Goto("migration", << Call("foreman_maintain_package_update", SatHost) >>)
    /\ UNCHANGED << coord, settings, args, non_responsive_host, idx,
                    pulp_migration_status >>

\* variant: the workaround calls without the migration between them
MigrationEvents_MigrationSkipped(open_before, open_after) ==
    (IF open_before THEN << CallArg("workaround_1967131", SatHost, "apply") >>
                    ELSE <<>>)
    \o (IF open_after THEN << CallArg("workaround_1967131", SatHost, "") >>
                      ELSE <<>>)

\* lines 122-126: the calls around the migration, given the two answers of the
\* bug tracker
MigrationEvents(open_before, open_after) ==
    (IF open_before THEN << CallArg("workaround_1967131", SatHost, "apply") >>
                    ELSE <<>>)
    \o << Call("pulp2_pulp3_migration", SatHost) >>
    \o (IF open_after THEN << CallArg("workaround_1967131", SatHost, "") >>
                      ELSE <<>>)

\* variant: the migration status is never looked at
MigrationFailed_Ignored(status) == FALSE

\* line 127: the migration did not succeed
MigrationFailed(status) == ~status

\* lines 121-128: the content migration of an upgrade to 6.10
SatMigration ==
    /\ coord = "satellite_upgrade" /\ pc = "migration"
    /\ IF settings.to_version = "6.10"
       THEN \E open_before \in BOOLEAN, open_after \in BOOLEAN, status \in BOOLEAN :
               /\ pulp_migration_status' = status
               /\ IF MigrationFailed(status)
                  THEN Abort(MigrationEvents(open_before, open_after))
                  ELSE Goto("execute", MigrationEvents(open_before, open_after))
       ELSE /\ Goto("execute", <<>>)
            /\ UNCHANGED pulp_migration_status
    /\ UNCHANGED << coord, settings, args, non_responsive_host, idx >>

\* lines 137-150: what the manual strategy does before nonfm_upgrade()
ManualPreparation(zstream, s) ==
    << Call("setup_satellite_firewall", SatHost) >>
    \o (IF ~zstream
        THEN << CallArg("run", SatHost,
                        "rm -rf /etc/yum.repos.d/rhel-{optional,released}.repo"),
                CallArg("foreman_packages_installation_check", SatHost, "unlock"),
                Call("setup_satellite_repo", SatHost),
                Call("foreman_maintain_package_update", SatHost),
                Call("update_packages", SatHost) >>
        ELSE <<>>)
    \o (IF s.distribution = "cdn"
        THEN << enable_disable_repo(SatHost,
                    << SatelliteRepo(s.os, s.to_version) >>, <<>>) >>
        ELSE <<>>)

\* lines 130-152: the upgrade by foreman-maintain or by the manual strategy
SatExecute ==
    /\ coord = "satellite_upgrade" /\ pc = "execute"
    /\ \E outcome \in GateOutcomes :
         IF settings.foreman_maintain_satellite_upgrade
         THEN IF outcome = "ok"
              THEN Goto("reboot", << Call("upgrade_using_foreman_maintain", SatHost) >>)
              ELSE Abort(<< Call("upgrade_using_foreman_maintain", SatHost) >>)
         ELSE IF outcome = "ok"
              THEN Goto("reboot",
                        ManualPreparation(args.zstream, settings)
                        \o << Call("nonfm_upgrade", SatHost),
                              CallArg("foreman_packages_installation_check",
                                      SatHost, "lock") >>)
              ELSE Abort(ManualPreparation(args.zstream, settings)
                         \o << Call("nonfm_upgrade", SatHost) >>)
    /\ UNCHANGED << coord, settings, args, non_responsive_host, idx,
                    pulp_migration_status >>

\* lines 153-155: reboot of the satellite when the setting asks for it
SatReboot ==
    /\ coord = "satellite_upgrade" /\ pc = "reboot"
    /\ IF settings.satellite_capsule_setup_reboot
       THEN \E outcome \in GateOutcomes :
               IF outcome = "ok"
               THEN Goto("ssh_check", << CallArg("reboot", SatHost, "180") >>)
               ELSE Abort(<< CallArg("reboot", SatHost, "180") >>)
       ELSE Goto("ssh_check", <<>>)
    /\ UNCHANGED << coord, settings, args, non_responsive_host, idx,
                    pulp_migration_status >>

\* line 156: host_ssh_availability_check(env.get('satellite_host'))
SatSSHCheck ==
    /\ coord = "satellite_upgrade" /\ pc = "ssh_check"
    /\ \E outcome \in GateOutcomes :
         IF outcome = "ok"
         THEN Goto("validation", << Call("host_ssh_availability_check", SatHost) >>)
         ELSE Abort(<< Call("host_ssh_availability_check", SatHost) >>)
    /\ UNCHANGED << coord, settings, args, non_responsive_host, idx,
                    pulp_migration_status >>

\* lines 157-158: upgrade_validation(True), then the function returns
SatValidation ==
    /\ coord = "satellite_upgrade" /\ pc = "validation"
    /\ \E outcome \in GateOutcomes :
         IF outcome = "ok"
         THEN Goto("Done", << CallArg("upgrade_validation", SatHost, "True") >>)
         ELSE Abort(<< CallArg("upgrade_validation", SatHost, "True") >>)
    /\ UNCHANGED << coord, settings, args, non_responsive_host, idx,
                    pulp_migration_status >>


(***************************************************************************)
(* satellite_setup(satellite_host)               upgrade/satellite.py      *)
(***************************************************************************)

\* lines 42-45: credentials into the environment, then the SSH check
SetupSSHCheck ==
    /\ coord = "satellite_setup" /\ pc = "start"
    /\ \E outcome \in GateOutcomes :
         IF outcome = "ok"
         THEN Goto("prepare",
                   << Call("host_ssh_availability_check", args.satellite_host) >>)
         ELSE Abort(<< Call("host_ssh_availability_check", args.satellite_host) >>)
    /\ UNCHANGED << coord, settings, args, non_responsive_host, idx,
                    pulp_migration_status >>

\* lines 46-53: clean up, install, subscribe, restart, record the host name
SetupPrepare ==
    /\ coord = "satellite_setup" /\ pc = "prepare"
    /\ settings' = [settings EXCEPT !.satellite_hostname = args.satellite_host]
    /\ Goto("Done", << Call("yum_repos_cleanup", args.satellite_host),
                       Call("install_prerequisites", args.satellite_host),
                       Call("subscribe", args.satellite_host),
                       Call("foreman_service_restart", args.satellite_host) >>)
    /\ UNCHANGED << coord, args, non_responsive_host, idx, pulp_migration_status >>

(***************************************************************************)
(* satellite_capsule_setup(satellite_host, capsule_hosts, os_version,      *)
(*                         upgradable_capsule)   upgrade/capsule.py        *)
(***************************************************************************)

\* variant: every OS name is taken to have a base URL
KnownOs_AnyOs(os_version) == TRUE

\* lines 45-51: an OS for which a base URL is configured
KnownOs(os_version) == os_version = "rhel6" \/ os_version = "rhel7"

\* lines 45-52: selection of the base URL, empty list of failed hosts
CapSetupOs ==
    /\ coord = "satellite_capsule_setup" /\ pc = "start"
    /\ IF KnownOs(args.os_version)
       THEN Goto("probe", <<>>)
       ELSE Abort(<<>>)
    /\ non_responsive_host' = <<>>
    /\ idx' = 1
    /\ UNCHANGED << coord, settings, args, pulp_migration_status >>

\* lines 53-57: the next host of the list is pinged; a host that answers gets
\* the SSH check, one that does not is recorded
CapSetupProbe ==
    /\ coord = "satellite_capsule_setup" /\ pc = "probe"
    /\ idx <= Len(args.capsule_hosts)
    /\ LET cap_host == args.capsule_hosts[idx] IN
       \E pings \in BOOLEAN, outcome \in GateOutcomes :
         IF ~pings
         THEN /\ non_responsive_host' = Append(non_responsive_host, cap_host)
              /\ Goto("configure", << CallArg("host_pings", cap_host, "False") >>)
         ELSE /\ UNCHANGED non_responsive_host
              /\ IF outcome = "ok"
                 THEN Goto("configure",
                           << CallArg("host_pings", cap_host, "True"),
                              Call("host_ssh_availability_check", cap_host) >>)
                 ELSE Abort(<< CallArg("host_pings", cap_host, "True"),
                               Call("host_ssh_availability_check", cap_host) >>)
    /\ UNCHANGED << coord, settings, args, idx, pulp_migration_status >>

\* lines 58-62: workaround and service restart on the host of this iteration
CapSetupConfigure ==
    /\ coord = "satellite_capsule_setup" /\ pc = "configure"
    /\ LET cap_host == args.capsule_hosts[idx] IN
         Goto("abort_check", << Call("workaround_1829115", cap_host),
                                Call("foreman_service_restart", cap_host) >>)
    /\ UNCHANGED << coord, settings, args, non_responsive_host, idx,
                    pulp_migration_status >>

\* lines 63-67: still inside the loop body: exit when a host was recorded,
\* otherwise copy the SSH key and go on with the next host
CapSetupAbortCheck ==
    /\ coord = "satellite_capsule_setup" /\ pc = "abort_check"
    /\ IF non_responsive_host # <<>>
       THEN /\ Abort(<<>>)
            /\ UNCHANGED idx
       ELSE /\ Goto("probe", << CallHosts("copy_ssh_key", args.satellite_host,
                                          args.capsule_hosts) >>)
            /\ idx' = idx + 1
    /\ UNCHANGED << coord, settings, args, non_responsive_host,
                    pulp_migration_status >>

\* lines 68-76: after the loop
CapSetupFollowOn ==
    /\ coord = "satellite_capsule_setup" /\ pc = "probe"
    /\ idx > Len(args.capsule_hosts)
    /\ IF args.upgradable_capsule
       THEN /\ settings' = IF settings.distribution = "cdn"
                           THEN [settings EXCEPT !.repos_cleared = TRUE]
                           ELSE settings
            /\ Goto("base_os",
                    << CallHosts("update_capsules_to_satellite", args.satellite_host,
                                 args.capsule_hosts) >>
                    \o (IF settings.upgrade_with_http_proxy
                        THEN << CallHosts("http_proxy_config", args.satellite_host,
                                          args.capsule_hosts) >>
                        ELSE <<>>)
                    \o << CallHosts("sync_capsule_repos_to_satellite",
                                    args.satellite_host, args.capsule_hosts) >>)
            /\ idx' = 1
       ELSE /\ Goto("Done", <<>>)
            /\ UNCHANGED << settings, idx >>
    /\ UNCHANGED << coord, args, non_responsive_host, pulp_migration_status >>

\* lines 77-81: base OS repository and clean-up on one capsule
CapSetupBaseOs ==
    /\ coord = "satellite_capsule_setup" /\ pc = "base_os"
    /\ idx <= Len(args.capsule_hosts)
    /\ LET cap_host == args.capsule_hosts[idx] IN
         /\ settings' = [settings EXCEPT !.capsule_hostname = cap_host]
         /\ Goto("base_os", << CallArg("add_baseOS_repo", cap_host, args.os_version),
                               Call("yum_repos_cleanup", cap_host) >>)
    /\ idx' = idx + 1
    /\ UNCHANGED << coord, args, non_responsive_host, pulp_migration_status >>

\* line 82: return capsule_hosts
CapSetupReturn ==
    /\ coord = "satellite_capsule_setup" /\ pc = "base_os"
    /\ idx > Len(args.capsule_hosts)
    /\ Goto("Done", <<>>)
    /\ UNCHANGED << coord, settings, args, non_responsive_host, idx,
                    pulp_migration_status >>


(***************************************************************************)
(* satellite_capsule_upgrade(cap_host, sat_host) upgrade/capsule.py        *)
(***************************************************************************)

\* variant: the sync is triggered and its completion is not awaited
SyncEvents_NoWait(cap_host, sat_host) ==
    << CallHosts("capsule_sync", sat_host, << cap_host >>) >>

\* execute(capsule_sync, cap_host, host=sat_host); wait_untill_capsule_sync(cap_host)
SyncEvents(cap_host, sat_host) ==
    << CallHosts("capsule_sync", sat_host, << cap_host >>),
       Call("wait_untill_capsule_sync", cap_host) >>

\* subscription-manager register and repos --list on the capsule
RegisterEvents(cap_host) ==
    << CallArg("run", cap_host, "subscription-manager register"),
       CallArg("run", cap_host, "subscription-manager repos --list") >>

\* lines 106-111: the capsule sync is checked before the upgrade
CapSyncBefore ==
    /\ coord = "satellite_capsule_upgrade" /\ pc = "start"
    /\ \E outcome \in GateOutcomes :
         IF outcome = "ok"
         THEN Goto("register", SyncEvents(args.cap_host, args.satellite_host))
         ELSE Abort(SyncEvents(args.cap_host, args.satellite_host))
    /\ UNCHANGED << coord, settings, args, non_responsive_host, idx,
                    pulp_migration_status >>

\* lines 112-120: firewall, registration with the activation key
CapRegister ==
    /\ coord = "satellite_capsule_upgrade" /\ pc = "register"
    /\ Goto("repo_config",
            << Call("setup_capsule_firewall", args.cap_host) >>
            \o RegisterEvents(args.cap_host))
    /\ UNCHANGED << coord, settings, args, non_responsive_host, idx,
                    pulp_migration_status >>

\* variant: the ansible repository enabled first instead of last
CapsuleRepoPlan_AnsibleFirst(cap_host, s) ==
    LET maintenance_repo == << RHEL_CONTENTS("maintenance") >>
        capsule_repos == << RHEL_CONTENTS("tools"), RHEL_CONTENTS("capsule") >>
    IN  << enable_disable_repo(cap_host,
               << AnsibleRepo(s.os, s.ansible_repo_version) >>, <<>>) >>
        \o (IF s.distribution = "cdn"
            THEN << enable_disable_repo(cap_host, capsule_repos \o maintenance_repo, <<>>) >>
            ELSE << enable_disable_repo(cap_host, <<>>, maintenance_repo) >>)
        \o (IF s.from_version # s.to_version
            THEN << enable_disable_repo(cap_host, <<>>, capsule_repos) >>
            ELSE <<>>)

\* variant: the disable of the capsule repos tied to equal versions
CapsuleRepoPlan_DisableOnEqual(cap_host, s) ==
    LET maintenance_repo == << RHEL_CONTENTS("maintenance") >>
        capsule_repos == << RHEL_CONTENTS("tools"), RHEL_CONTENTS("capsule") >>
    IN  (IF s.distribution = "cdn"
         THEN << enable_disable_repo(cap_host, capsule_repos \o maintenance_repo, <<>>) >>
         ELSE << enable_disable_repo(cap_host, <<>>, maintenance_repo) >>)
        \o (IF s.from_version = s.to_version
            THEN << enable_disable_repo(cap_host, <<>>, capsule_repos) >>
            ELSE <<>>)
        \o << enable_disable_repo(cap_host,
                  << AnsibleRepo(s.os, s.ansible_repo_version) >>, <<>>) >>

\* lines 121-137: the repository actions of the capsule upgrade
CapsuleRepoPlan(cap_host, s) ==
    LET maintenance_repo == << RHEL_CONTENTS("maintenance") >>
        capsule_repos == << RHEL_CONTENTS("tools"), RHEL_CONTENTS("capsule") >>
    IN  (IF s.distribution = "cdn"
         THEN << enable_disable_repo(cap_host, capsule_repos \o maintenance_repo, <<>>) >>
         ELSE << enable_disable_repo(cap_host, <<>>, maintenance_repo) >>)
        \o (IF s.from_version # s.to_version
            THEN << enable_disable_repo(cap_host, <<>>, capsule_repos) >>
            ELSE <<>>)
        \o << enable_disable_repo(cap_host,
                  << AnsibleRepo(s.os, s.ansible_repo_version) >>, <<>>) >>

\* lines 121-137
CapRepoConfig ==
    /\ coord = "satellite_capsule_upgrade" /\ pc = "repo_config"
    /\ Goto("execute", CapsuleRepoPlan(args.cap_host, settings))
    /\ UNCHANGED << coord, settings, args, non_responsive_host, idx,
                    pulp_migration_status >>

\* variant: the two branches exchanged
CapsuleStrategy_Swapped(cap_host, s) ==
    IF ~s.foreman_maintain_capsule_upgrade
    THEN << Call("foreman_maintain_package_update", cap_host),
            Call("upgrade_using_foreman_maintain", cap_host) >>
    ELSE << Call("nonfm_upgrade", cap_host) >>

\* lines 139-145: the calls of the chosen strategy
CapsuleStrategy(cap_host, s) ==
    IF s.foreman_maintain_capsule_upgrade
    THEN << Call("foreman_maintain_package_update", cap_host),
            Call("upgrade_using_foreman_maintain", cap_host) >>
    ELSE << Call("nonfm_upgrade", cap_host) >>

\* lines 139-145
CapExecute ==
    /\ coord = "satellite_capsule_upgrade" /\ pc = "execute"
    /\ \E outcome \in GateOutcomes :
         IF outcome = "ok"
         THEN Goto("reboot", CapsuleStrategy(args.cap_host, settings))
         ELSE Abort(CapsuleStrategy(args.cap_host, settings))
    /\ UNCHANGED << coord, settings, args, non_responsive_host, idx,
                    pulp_migration_status >>

\* lines 146-147: reboot(160), whatever the settings say
CapReboot ==
    /\ coord = "satellite_capsule_upgrade" /\ pc = "reboot"
    /\ \E outcome \in GateOutcomes :
         IF outcome = "ok"
         THEN Goto("ssh_check", << CallArg("reboot", args.cap_host, "160") >>)
         ELSE Abort(<< CallArg("reboot", args.cap_host, "160") >>)
    /\ UNCHANGED << coord, settings, args, non_responsive_host, idx,
                    pulp_migration_status >>

\* line 148: host_ssh_availability_check(cap_host)
CapSSHCheck ==
    /\ coord = "satellite_capsule_upgrade" /\ pc = "ssh_check"
    /\ \E outcome \in GateOutcomes :
         IF outcome = "ok"
         THEN Goto("validation", << Call("host_ssh_availability_check", args.cap_host) >>)
         ELSE Abort(<< Call("host_ssh_availability_check", args.cap_host) >>)
    /\ UNCHANGED << coord, settings, args, non_responsive_host, idx,
                    pulp_migration_status >>

\* lines 149-150: upgrade_validation()
CapValidation ==
    /\ coord = "satellite_capsule_upgrade" /\ pc = "validation"
    /\ \E outcome \in GateOutcomes :
         IF outcome = "ok"
         THEN Goto("sync_after", << CallArg("upgrade_validation", args.cap_host, "") >>)
         ELSE Abort(<< CallArg("upgrade_validation", args.cap_host, "") >>)
    /\ UNCHANGED << coord, settings, args, non_responsive_host, idx,
                    pulp_migration_status >>

\* lines 151-154: the capsule sync is checked after the upgrade
CapSyncAfter ==
    /\ coord = "satellite_capsule_upgrade" /\ pc = "sync_after"
    /\ \E outcome \in GateOutcomes :
         IF outcome = "ok"
         THEN Goto("Done", SyncEvents(args.cap_host, args.satellite_host))
         ELSE Abort(SyncEvents(args.cap_host, args.satellite_host))
    /\ UNCHANGED << coord, settings, args, non_responsive_host, idx,
                    pulp_migration_status >>

(***************************************************************************)
(* satellite_capsule_zstream_upgrade(cap_host)   upgrade/capsule.py        *)
(***************************************************************************)

\* lines 170-176: FROM and TO versions have to be the same
CapZVersionCheck ==
    /\ coord = "satellite_capsule_zstream_upgrade" /\ pc = "start"
    /\ IF ~(settings.from_version = settings.to_version)
       THEN Abort(<<>>)
       ELSE Goto("register", <<>>)
    /\ UNCHANGED << coord, settings, args, non_responsive_host, idx,
                    pulp_migration_status >>

\* lines 177-182: registration with the activation key
CapZRegister ==
    /\ coord = "satellite_capsule_zstream_upgrade" /\ pc = "register"
    /\ Goto("repo_config", RegisterEvents(args.cap_host))
    /\ UNCHANGED << coord, settings, args, non_responsive_host, idx,
                    pulp_migration_status >>

\* lines 183-195: the repository actions of the capsule zStream upgrade
CapsuleZstreamRepoPlan(cap_host, s) ==
    LET capsule_repos == << RHEL_CONTENTS("tools"), RHEL_CONTENTS("capsule"),
                            RHEL_CONTENTS("maintenance") >>
    IN  (IF s.distribution = "cdn"
         THEN << enable_disable_repo(cap_host, capsule_repos, <<>>) >>
         ELSE << enable_disable_repo(cap_host, <<>>, capsule_repos) >>)
        \o << enable_disable_repo(cap_host,
                  << AnsibleRepo(s.os, s.ansible_repo_version) >>, <<>>) >>

\* lines 183-195
CapZRepoConfig ==
    /\ coord = "satellite_capsule_zstream_upgrade" /\ pc = "repo_config"
    /\ Goto("execute", CapsuleZstreamRepoPlan(args.cap_host, settings))
    /\ UNCHANGED << coord, settings, args, non_responsive_host, idx,
                    pulp_migration_status >>

\* lines 198-201: the call of the chosen strategy
CapsuleZstreamStrategy(cap_host, s) ==
    IF s.foreman_maintain_capsule_upgrade
    THEN << Call("upgrade_using_foreman_maintain", cap_host) >>
    ELSE << Call("nonfm_upgrade", cap_host) >>

\* lines 198-201
CapZExecute ==
    /\ coord = "satellite_capsule_zstream_upgrade" /\ pc = "execute"
    /\ \E outcome \in GateOutcomes :
         IF outcome = "ok"
         THEN Goto("reboot", CapsuleZstreamStrategy(args.cap_host, settings))
         ELSE Abort(CapsuleZstreamStrategy(args.cap_host, settings))
    /\ UNCHANGED << coord, settings, args, non_responsive_host, idx,
                    pulp_migration_status >>

\* lines 202-204: reboot of the capsule when the setting asks for it
CapZReboot ==
    /\ coord = "satellite_capsule_zstream_upgrade" /\ pc = "reboot"
    /\ IF settings.satellite_capsule_setup_reboot
       THEN \E outcome \in GateOutcomes :
               IF outcome = "ok"
               THEN Goto("ssh_check", << CallArg("reboot", args.cap_host, "160") >>)
               ELSE Abort(<< CallArg("reboot", args.cap_host, "160") >>)
       ELSE Goto("ssh_check", <<>>)
    /\ UNCHANGED << coord, settings, args, non_responsive_host, idx,
                    pulp_migration_status >>

\* line 205: host_ssh_availability_check(cap_host)
CapZSSHCheck ==
    /\ coord = "satellite_capsule_zstream_upgrade" /\ pc = "ssh_check"
    /\ \E outcome \in GateOutcomes :
         IF outcome = "ok"
         THEN Goto("validation", << Call("host_ssh_availability_check", args.cap_host) >>)
         ELSE Abort(<< Call("host_ssh_availability_check", args.cap_host) >>)
    /\ UNCHANGED << coord, settings, args, non_responsive_host, idx,
                    pulp_migration_status >>

\* lines 206-207: upgrade_validation(), then the function returns
CapZValidation ==
    /\ coord = "satellite_capsule_zstream_upgrade" /\ pc = "validation"
    /\ \E outcome \in GateOutcomes :
         IF outcome = "ok"
         THEN Goto("Done", << CallArg("upgrade_validation", args.cap_host, "") >>)
         ELSE Abort(<< CallArg("upgrade_validation", args.cap_host, "") >>)
    /\ UNCHANGED << coord, settings, args, non_responsive_host, idx,
                    pulp_migration_status >>

(***************************************************************************)
(* the run                                                                 *)
(***************************************************************************)
Next ==
    \/ SatZstreamCheck \/ SatDisableAll \/ SatEnableCommon \/ SatRepoConfig
    \/ SatCustomRepoSetup \/ SatCustomPackageUpdate \/ SatMigration
    \/ SatExecute \/ SatReboot \/ SatSSHCheck \/ SatValidation
    \/ SetupSSHCheck \/ SetupPrepare
    \/ CapSetupOs \/ CapSetupProbe \/ CapSetupConfigure \/ CapSetupAbortCheck
    \/ CapSetupFollowOn \/ CapSetupBaseOs \/ CapSetupReturn
    \/ CapSyncBefore \/ CapRegister \/ CapRepoConfig \/ CapExecute
    \/ CapReboot \/ CapSSHCheck \/ CapValidation \/ CapSyncAfter
    \/ CapZVersionCheck \/ CapZRegister \/ CapZRepoConfig \/ CapZExecute
    \/ CapZReboot \/ CapZSSHCheck \/ CapZValidation

Spec == Init /\ [][Next]_vars

\* every blocking wait ends, so a run that can take a step takes it
FairSpec == Spec /\ WF_vars(Next)

(***************************************************************************)
(* repository action plans applied to a host, one after the other          *)
(***************************************************************************)
\* the repositories the plans are drawn from
PlanRepos == { RHEL_CONTENTS("tools"), RHEL_CONTENTS("capsule") }

RepoInit ==
    /\ coord = "enable_disable_repo"
    /\ settings = DefaultSettings
    /\ args = DefaultArgs
    /\ pc = "start"
    /\ trace = <<>>
    /\ non_responsive_host = <<>>
    /\ idx = 1
    /\ pulp_migration_status = TRUE
    /\ host_repos \in SUBSET PlanRepos

\* one plan is applied: a set to enable and a disjoint set to disable, the
\* wildcard among the latter or not
ApplyRepositoryAction ==
    /\ coord = "enable_disable_repo"
    /\ Len(trace) < MaxApplications
    /\ \E en \in SUBSET PlanRepos, dis \in SUBSET (PlanRepos \cup {Wildcard}) :
          /\ en \cap dis = {}
          /\ Goto("start", << enable_disable_repo(SatHost, SetToSeq(en), SetToSeq(dis)) >>)
    /\ UNCHANGED << coord, settings, args, non_responsive_host, idx,
                    pulp_migration_status >>

RepoNext == ApplyRepositoryAction

RepoSpec == RepoInit /\ [][RepoNext]_vars

TypeOK ==
    /\ coord \in Coordinators
    /\ pc \in STRING
    /\ idx \in 1..(MaxHosts + NumCustomRepos + 1)
    /\ pulp_migration_status \in BOOLEAN
    /\ Range(non_responsive_host) \subseteq CapHosts
    /\ host_repos \subseteq KnownRepos


(***************************************************************************)
(* observations on the trace                                               *)
(***************************************************************************)
\* positions of the trace with the given helper
Positions(op) == { i \in DOMAIN trace : trace[i].op = op }
\* number of calls of the given helper
Count(op) == Cardinality(Positions(op))
\* a repository action that enables something
IsEnable(e) == e.op = "enable_disable_repo" /\ e.enable # <<>>
\* the repository action that disables "*"
IsDisableAll(e) ==
    e.op = "enable_disable_repo" /\ e.enable = <<>> /\ e.disable = << Wildcard >>
\* the helpers that carry out the upgrade
ExecutorOps == {"upgrade_using_foreman_maintain", "nonfm_upgrade"}
ExecutorPositions == { i \in DOMAIN trace : trace[i].op \in ExecutorOps }
\* a zStream run
ZstreamRun ==
    \/ coord = "satellite_upgrade" /\ args.zstream
    \/ coord = "satellite_capsule_zstream_upgrade"
\* the coordinators that upgrade a host
UpgradeCoordinators == {"satellite_upgrade", "satellite_capsule_upgrade",
                        "satellite_capsule_zstream_upgrade"}

(***************************************************************************)
(* C1: a zStream run whose FROM and TO versions differ never issues a      *)
(* helper call: after its first step it is Aborted, with an empty trace.   *)
(***************************************************************************)
C1_ZstreamMismatchAbortsFirst ==
    (ZstreamRun /\ settings.from_version # settings.to_version)
        => /\ trace = <<>>
           /\ pc \in {"start", "Aborted"}

C1_Witness ==
    /\ coord = "satellite_upgrade" /\ args.zstream
    /\ settings.from_version # settings.to_version
    /\ pc = "Aborted"

(***************************************************************************)
(* C2: in satellite_capsule_setup, once a host has failed the ping, the    *)
(* trace holds no copy_ssh_key, update_capsules_to_satellite or            *)
(* sync_capsule_repos_to_satellite call.                                   *)
(***************************************************************************)
C2_NoFollowOnWhenAHostFailed ==
    (coord = "satellite_capsule_setup" /\ non_responsive_host # <<>>)
        => \A i \in DOMAIN trace :
              trace[i].op \notin {"copy_ssh_key", "update_capsules_to_satellite",
                                  "sync_capsule_repos_to_satellite"}

(***************************************************************************)
(* C3: in satellite_capsule_setup, when the run is aborted because of      *)
(* non-responsive hosts, every host of the list has been pinged.           *)
(***************************************************************************)
C3_AllHostsProbedBeforeAbort ==
    (coord = "satellite_capsule_setup" /\ pc = "Aborted"
        /\ non_responsive_host # <<>>)
        => \A h \in Range(args.capsule_hosts) :
              \E i \in Positions("host_pings") : trace[i].host = h

(***************************************************************************)
(* C4: in satellite_upgrade the first helper call is the disable of "*",   *)
(* it has been issued once the run is past the version check, and every    *)
(* enable and every repository_setup comes after it.                       *)
(***************************************************************************)
C4_DisableAllFirst ==
    coord = "satellite_upgrade"
        => /\ (pc \notin {"start", "disable_all"} /\ ~(pc = "Aborted" /\ trace = <<>>))
                => (trace # <<>> /\ IsDisableAll(trace[1]))
           /\ \A i \in DOMAIN trace :
                 (IsEnable(trace[i]) \/ trace[i].op = "repository_setup")
                     => \E j \in 1..(i - 1) : IsDisableAll(trace[j])

C4_Witness ==
    /\ coord = "satellite_upgrade" /\ pc = "Done"
    /\ \E i \in DOMAIN trace : IsEnable(trace[i])
    /\ Positions("repository_setup") # {}

(***************************************************************************)
(* C5: in satellite_upgrade to 6.10, when the migration reports failure    *)
(* the run is Aborted and the trace holds no upgrade_using_foreman_        *)
(* maintain, nonfm_upgrade, update_packages, reboot or upgrade_validation. *)
(***************************************************************************)
C5_MigrationFailureAborts ==
    (coord = "satellite_upgrade" /\ settings.to_version = "6.10"
        /\ ~pulp_migration_status)
        => /\ pc = "Aborted"
           /\ Positions("pulp2_pulp3_migration") # {}
           /\ \A i \in DOMAIN trace :
                 trace[i].op \notin (ExecutorOps \cup
                     {"update_packages", "reboot", "upgrade_validation"})

C5_Witness ==
    /\ coord = "satellite_upgrade" /\ settings.to_version = "6.10"
    /\ ~pulp_migration_status
    /\ pc = "Aborted"
    /\ ~settings.foreman_maintain_satellite_upgrade
    /\ settings.distribution = "custom"


(***************************************************************************)
(* C6: satellite_upgrade from 6.9 to 6.10, cdn, with foreman-maintain, not *)
(* zStream, every helper succeeding.                                       *)
(***************************************************************************)
C6_Scenario ==
    /\ coord = "satellite_upgrade" /\ ~args.zstream
    /\ settings.from_version = "6.9" /\ settings.to_version = "6.10"
    /\ settings.distribution = "cdn"
    /\ settings.foreman_maintain_satellite_upgrade
    /\ pc = "Done"

\* the sequence the scenario names, with or without the reboot
C6_Sequence(with_reboot) ==
    << Ev("enable_disable_repo", 0, <<>>, << Repo("*", "", "") >>, "", 0, <<>>),
       Ev("enable_disable_repo", 0,
          << Repo("rhel-{}-server-satellite-maintenance-6-rpms", "7", "") >>,
          <<>>, "", 0, <<>>),
       Ev("pulp2_pulp3_migration", 0, <<>>, <<>>, "", 0, <<>>),
       Ev("upgrade_using_foreman_maintain", 0, <<>>, <<>>, "", 0, <<>>) >>
    \o (IF with_reboot
        THEN << Ev("reboot", 0, <<>>, <<>>, "180", 0, <<>>) >>
        ELSE <<>>)
    \o << Ev("host_ssh_availability_check", 0, <<>>, <<>>, "", 0, <<>>),
          Ev("upgrade_validation", 0, <<>>, <<>>, "True", 0, <<>>) >>

\* the trace without the calls of the bug 1967131 workaround
IsNotWorkaround1967131(e) == e.op # "workaround_1967131"
TraceWithoutWorkaround == SelectSeq(trace, IsNotWorkaround1967131)

\* C6 as stated: the trace of the scenario is exactly disable-all, enable of
\* the maintenance repo, migration, upgrade_using_foreman_maintain, reboot,
\* SSH check, validation.
C6_ExactSequenceWithReboot ==
    C6_Scenario => trace = C6_Sequence(TRUE)

\* C6 amended: leaving the bug 1967131 workaround calls aside, the trace of
\* the scenario is exactly that sequence, where the reboot is present if and
\* only if satellite_capsule_setup_reboot is set.
C6_ExactSequence ==
    C6_Scenario
        => TraceWithoutWorkaround = C6_Sequence(settings.satellite_capsule_setup_reboot)

C6_Witness ==
    /\ C6_Scenario
    /\ settings.satellite_capsule_setup_reboot
    /\ Positions("workaround_1967131") = {}

(***************************************************************************)
(* C7: satellite_upgrade with the custom distribution: no entry of         *)
(* CUSTOM_SAT_REPO is set up twice, every entry has been set up once the   *)
(* run is past the table loop, and no CDN Satellite repository (the        *)
(* maintenance repo, the versioned satellite repo) is ever enabled.        *)
(***************************************************************************)
CdnSatelliteTemplates == {"rhel-{}-server-satellite-maintenance-6-rpms",
                          "rhel-{}-server-satellite-{}-rpms"}

SetupCount(entry) ==
    Cardinality({ i \in Positions("repository_setup") : trace[i].entry = entry })

IsSyncConfirmation(i) ==
    /\ i \in DOMAIN trace /\ (i + 1) \in DOMAIN trace
    /\ trace[i].op = "capsule_sync"
    /\ trace[i + 1].op = "wait_untill_capsule_sync"

SyncConfirmedBeforeAndAfter ==
    /\ trace # <<>> => IsSyncConfirmation(1)
    /\ \A i \in DOMAIN trace :
          (trace[i].op = "enable_disable_repo" \/ i \in ExecutorPositions) => i > 2
    /\ pc = "Done"
          => /\ IsSyncConfirmation(Len(trace) - 1)
             /\ Count("capsule_sync") = 2
             /\ \E v \in Positions("upgrade_validation") :
                   /\ v < Len(trace) - 1
                   /\ \E x \in ExecutorPositions : x < v

\* C8 as stated: this holds of satellite_capsule_upgrade and of
\* satellite_capsule_zstream_upgrade.
C8_SyncBothCapsuleWorkflows ==
    coord \in {"satellite_capsule_upgrade", "satellite_capsule_zstream_upgrade"}
        => SyncConfirmedBeforeAndAfter

\* C8 amended: this holds of satellite_capsule_upgrade.
C8_SyncCapsuleUpgrade ==
    coord = "satellite_capsule_upgrade" => SyncConfirmedBeforeAndAfter

C8_Witness ==
    /\ coord = "satellite_capsule_upgrade" /\ pc = "Done"
    /\ Count("wait_untill_capsule_sync") = 2

(***************************************************************************)
(* C9: an upgrade coordinator is Done only with, after the executor, the   *)
(* SSH check and then the validation, any reboot lying between executor    *)
(* and SSH check; and an Aborted run takes no further step.                *)
(***************************************************************************)
C9_DoneOrder ==
    (coord \in UpgradeCoordinators /\ pc = "Done")
        => \E x \in ExecutorPositions :
           \E c \in Positions("host_ssh_availability_check") :
           \E v \in Positions("upgrade_validation") :
              /\ x < c /\ c < v
              /\ \A r \in Positions("reboot") : x < r /\ r < c

C9_GatesBeforeDone ==
    /\ []C9_DoneOrder
    /\ [][pc = "Aborted" => UNCHANGED vars]_vars

C9_Witness ==
    /\ coord \in UpgradeCoordinators /\ pc = "Done"
    /\ Positions("reboot") # {}

(***************************************************************************)
(* C10: an upgrade run calls at most one executor, exactly one once it is  *)
(* past the execution phase, and it is upgrade_using_foreman_maintain if   *)
(* and only if the foreman-maintain flag of the role is set.               *)
(***************************************************************************)
RoleMaintenanceFlag ==
    IF coord = "satellite_upgrade"
    THEN settings.foreman_maintain_satellite_upgrade
    ELSE settings.foreman_maintain_capsule_upgrade

C10_ExactlyOneStrategy ==
    coord \in UpgradeCoordinators
        => /\ Count("upgrade_using_foreman_maintain") + Count("nonfm_upgrade") <= 1
           /\ pc \in {"reboot", "ssh_check", "validation", "sync_after", "Done"}
                => Count("upgrade_using_foreman_maintain") + Count("nonfm_upgrade") = 1
           /\ Count("upgrade_using_foreman_maintain") = 1 => RoleMaintenanceFlag
           /\ Count("nonfm_upgrade") = 1 => ~RoleMaintenanceFlag

C10_Witness ==
    /\ coord = "satellite_capsule_upgrade" /\ pc = "Done"
    /\ ~settings.foreman_maintain_capsule_upgrade
    /\ settings.foreman_maintain_satellite_upgrade
    /\ Count("nonfm_upgrade") = 1

(***************************************************************************)
(* C11: satellite_capsule_setup called with an OS that is neither rhel6    *)
(* nor rhel7 issues no helper call: no ping, no command on any host; after *)
(* its first step the run is Aborted with an empty trace.                  *)
(***************************************************************************)
C11_UnknownOsAbortsFirst ==
    (coord = "satellite_capsule_setup" /\ args.os_version \notin {"rhel6", "rhel7"})
        => /\ trace = <<>>
           /\ pc \in {"start", "Aborted"}

C11_Witness ==
    /\ coord = "satellite_capsule_setup"
    /\ args.os_version \notin {"rhel6", "rhel7"}
    /\ args.capsule_hosts # <<>>
    /\ pc = "Aborted"

(***************************************************************************)
(* C12: when the executor is called, the last repository action before it  *)
(* is the enable of rhel-{major}-server-ansible-{ansible_repo_version}-rpms.*)
(***************************************************************************)
\* positions of the repository actions before position x
RepoActionsBefore(x) ==
    { i \in 1..(x - 1) : trace[i].op = "enable_disable_repo" }

\* the largest element of a non-empty set of positions
Last(positions) == CHOOSE i \in positions : \A j \in positions : j <= i

AnsibleEnabledLast ==
    \A x \in ExecutorPositions :
        /\ RepoActionsBefore(x) # {}
        /\ LET e == trace[Last(RepoActionsBefore(x))]
           IN  /\ e.disable = <<>>
               /\ e.enable = << Repo("rhel-{}-server-ansible-{}-rpms",
                                     major_ver(settings.os),
                                     settings.ansible_repo_version) >>

\* C12 as stated: this holds of satellite_upgrade, satellite_capsule_upgrade
\* and satellite_capsule_zstream_upgrade.
C12_AnsibleLastAllWorkflows ==
    coord \in UpgradeCoordinators => AnsibleEnabledLast

\* C12 amended: this holds of the two capsule upgrade workflows.
C12_AnsibleLastCapsuleWorkflows ==
    coord \in {"satellite_capsule_upgrade", "satellite_capsule_zstream_upgrade"}
        => AnsibleEnabledLast

C12_Witness ==
    /\ coord = "satellite_capsule_upgrade" /\ pc = "Done"
    /\ settings.from_version # settings.to_version
    /\ settings.os = "rhel8"
    /\ ExecutorPositions # {}

(***************************************************************************)
(* C13: satellite_capsule_upgrade with FROM # TO: the disable of the tools *)
(* and capsule repositories, the enables of them, and the executor.        *)
(***************************************************************************)
ToolsCapsuleLabels == {"tools", "capsule"}

\* positions where the tools and the capsule repository are disabled
ToolsCapsuleDisables ==
    { i \in DOMAIN trace :
        /\ trace[i].op = "enable_disable_repo"
        /\ ToolsCapsuleLabels \subseteq { trace[i].disable[k].tmpl :
                                           k \in DOMAIN trace[i].disable } }

\* positions where the tools or the capsule repository is enabled
ToolsCapsuleEnables ==
    { i \in DOMAIN trace :
        /\ trace[i].op = "enable_disable_repo"
        /\ \E k \in DOMAIN trace[i].enable :
              trace[i].enable[k].tmpl \in ToolsCapsuleLabels }

C13_Case ==
    /\ coord = "satellite_capsule_upgrade"
    /\ settings.from_version # settings.to_version

C14_PlanIdempotent ==
    [][(trace # <<>> /\ trace' = Append(trace, trace[Len(trace)]))
          => host_repos' = host_repos]_vars

C14_Witness ==
    /\ coord = "enable_disable_repo"
    /\ Len(trace) = 2 /\ trace[1] = trace[2]
    /\ trace[1].enable = << RHEL_CONTENTS("tools") >>
    /\ Wildcard \in Range(trace[1].disable)
    /\ host_repos = { RHEL_CONTENTS("tools") }

(***************************************************************************)
(* C15: in satellite_upgrade the common rhscl/server repositories are      *)
(* enabled right after the disable of "*" when the foreman-maintain flag   *)
(* is not set, and never enabled when it is set.                           *)
(***************************************************************************)
CommonEnables ==
    { i \in DOMAIN trace :
        /\ trace[i].op = "enable_disable_repo"
        /\ \E k \in DOMAIN trace[i].enable :
              trace[i].enable[k].tmpl \in {"rhscl", "server"} }

C15_CommonReposIffNoMaintenanceTool ==
    coord = "satellite_upgrade"
        => /\ settings.foreman_maintain_satellite_upgrade => CommonEnables = {}
           /\ (~settings.foreman_maintain_satellite_upgrade
                 /\ pc \notin {"start", "disable_all", "enable_common"}
                 /\ trace # <<>>)
                => /\ CommonEnables = {2}
                   /\ IsDisableAll(trace[1])
                   /\ trace[2].enable = << Repo("rhscl", "", ""), Repo("server", "", "") >>

C15_Witness ==
    /\ coord = "satellite_upgrade" /\ pc = "Done"
    /\ ~settings.foreman_maintain_satellite_upgrade
    /\ CommonEnables = {2}

(***************************************************************************)
(* C16: in satellite_upgrade to 6.10, once the migration has been called,  *)
(* the workaround for bug 1967131 was applied right before it if at all,   *)
(* the compensating call comes right after it if at all, and the one is    *)
(* present if and only if the other is.                                    *)
(***************************************************************************)
WorkaroundApplies ==
    { i \in Positions("workaround_1967131") : trace[i].arg = "apply" }
WorkaroundCompensations ==
    { i \in Positions("workaround_1967131") : trace[i].arg # "apply" }

C16_WorkaroundPairComplete ==
    (coord = "satellite_upgrade" /\ Positions("pulp2_pulp3_migration") # {})
        => \A p \in Positions("pulp2_pulp3_migration") :
              /\ WorkaroundApplies \subseteq {p - 1}
              /\ WorkaroundCompensations \subseteq {p + 1}
              /\ (WorkaroundApplies = {}) <=> (WorkaroundCompensations = {})

(***************************************************************************)
(* C17: in the manual strategy of satellite_upgrade, update_packages and   *)
(* nonfm_upgrade run after an unlock of the package installation check and *)
(* before the lock, every lock has an unlock before it, and a run that is  *)
(* past the strategy has issued the lock as its last packages-check call.  *)
(***************************************************************************)
Unlocks ==
    { i \in Positions("foreman_packages_installation_check") :
        trace[i].arg = "unlock" }
Locks ==
    { i \in Positions("foreman_packages_installation_check") :
        trace[i].arg = "lock" }

C17_LockBracketsManualUpgrade ==
    (coord = "satellite_upgrade" /\ ~settings.foreman_maintain_satellite_upgrade)
        => /\ \A x \in Positions("update_packages") \cup Positions("nonfm_upgrade") :
                 /\ \E u \in Unlocks : u < x
                 /\ \A l \in Locks : x < l
           /\ \A l \in Locks : \E u \in Unlocks : u < l
           /\ pc \in {"reboot", "ssh_check", "validation", "Done"}
                 => /\ Locks # {}
                    /\ \A u \in Unlocks : \E l \in Locks : u < l

(***************************************************************************)
(* C18: in satellite_upgrade with the cdn distribution, every CDN          *)
(* Satellite repository that is enabled has the OS major version of the    *)
(* settings in its name, and rhel-{major}-server-satellite-{to_version}-   *)
(* rpms has been enabled when the executor is called.                      *)
(***************************************************************************)
C18_CdnReposCarryMajor ==
    (coord = "satellite_upgrade" /\ settings.distribution = "cdn")
        => /\ \A i \in DOMAIN trace : \A k \in DOMAIN trace[i].enable :
                 trace[i].enable[k].tmpl \in CdnSatelliteTemplates
                     => trace[i].enable[k].major = major_ver(settings.os)
           /\ \A x \in ExecutorPositions : \E i \in 1..(x - 1) :
                 /\ trace[i].op = "enable_disable_repo"
                 /\ Repo("rhel-{}-server-satellite-{}-rpms", major_ver(settings.os),
                         settings.to_version) \in Range(trace[i].enable)

(***************************************************************************)
(* C19: in satellite_capsule_setup no workaround_1829115,                  *)
(* foreman_service_restart, add_baseOS_repo or yum_repos_cleanup is issued *)
(* against a host recorded as non-responsive.                              *)
(***************************************************************************)
ConfigurationOps == {"workaround_1829115", "foreman_service_restart",
                     "add_baseOS_repo", "yum_repos_cleanup"}

C19_NoCommandOnNonResponsiveHost ==
    coord = "satellite_capsule_setup"
        => \A h \in Range(non_responsive_host) : \A i \in DOMAIN trace :
              trace[i].op \in ConfigurationOps => trace[i].host # h

(***************************************************************************)
(* C20: with every blocking wait ending in success or in a fatal outcome,  *)
(* every run of every coordinator reaches Done or Aborted, and from then   *)
(* on nothing changes: no helper call is issued any more.                  *)
(***************************************************************************)
C20_RunsTerminate ==
    /\ <>Terminal
    /\ [][Terminal => UNCHANGED vars]_vars

C20_Witness ==
    /\ coord = "satellite_capsule_upgrade" /\ pc = "Aborted"
    /\ Count("wait_untill_capsule_sync") = 2

====
